---- MODULE Spec2Model ----
(***************************************************************************)
(* Model of directory_cleanup_and_inventory.py: the junk classifier        *)
(* (should_clean_file), the walker/cleaner (clean_directory over os.walk), *)
(* the hierarchy deriver (get_directory_structure) and main.               *)
(*                                                                         *)
(* A Python str is a sequence of one-character strings, so that prefix,    *)
(* substring, split and join are computed and not assumed.  The file-size  *)
(* and timestamp renderings (humanize.naturalsize, strftime) and the CSV   *)
(* encoding are left out: a FileRecord keeps filename, relative_path,      *)
(* raw_size and directory.                                                 *)
(***************************************************************************)
EXTENDS Integers, Sequences, FiniteSets, TLC

(***************************************************************************)
(* Bounds of the model.                                                    *)
(***************************************************************************)
\* at most this many regular files in the scanned tree
MaxFiles == 2

(***************************************************************************)
(* Characters and strings.                                                 *)
(***************************************************************************)
\* the characters used by the model, in ascending code-point order
CodePoints ==
  << "-", ".", "/", "0", "1", "A", "D", "I", "L", "O", "R", "S", "T", "V", "_",
     "a", "b", "c", "d", "e", "f", "g", "h", "i", "k", "l", "m", "n", "o", "p",
     "r", "s", "t", "u", "v", "x", "y", "z" >>

Ord(c) == CHOOSE i \in 1..Len(CodePoints) : CodePoints[i] = c

\* os.sep on POSIX
Sep == "/"

\* Python's str < str: lexicographic by code point, a proper prefix is smaller
RECURSIVE StrLess(_, _)
StrLess(a, b) ==
  IF b = <<>> THEN FALSE
  ELSE IF a = <<>> THEN TRUE
  ELSE IF Head(a) = Head(b) THEN StrLess(Tail(a), Tail(b))
  ELSE Ord(Head(a)) < Ord(Head(b))

\* str.startswith
StartsWith(s, p) == Len(s) >= Len(p) /\ SubSeq(s, 1, Len(p)) = p

\* the `in` operator on two str: p occurs in s as a substring
Contains(s, p) ==
  \E i \in 1..(Len(s) - Len(p) + 1) : SubSeq(s, i, i + Len(p) - 1) = p

\* str.split(sep) for a one-character sep
RECURSIVE Split(_, _)
Split(s, sep) ==
  IF \A i \in 1..Len(s) : s[i] # sep THEN << s >>
  ELSE LET i == CHOOSE k \in 1..Len(s) :
                  s[k] = sep /\ \A j \in 1..(k - 1) : s[j] # sep
       IN << SubSeq(s, 1, i - 1) >> \o Split(SubSeq(s, i + 1, Len(s)), sep)

\* index of the last separator of p, 0 when there is none (str.rfind + 1)
LastSep(p) ==
  IF \A i \in 1..Len(p) : p[i] # Sep THEN 0
  ELSE CHOOSE k \in 1..Len(p) : p[k] = Sep /\ \A j \in (k + 1)..Len(p) : p[j] # Sep

\* str.rstrip('/')
RECURSIVE RStripSep(_)
RStripSep(s) ==
  IF s # <<>> /\ s[Len(s)] = Sep THEN RStripSep(SubSeq(s, 1, Len(s) - 1)) ELSE s

\* posixpath.join of two components
PathJoin(a, b) ==
  IF StartsWith(b, << Sep >>) THEN b
  ELSE IF a = <<>> \/ a[Len(a)] = Sep THEN a \o b
  ELSE a \o << Sep >> \o b

\* posixpath.join(*parts)
RECURSIVE JoinAll(_)
JoinAll(parts) ==
  IF Len(parts) = 1 THEN parts[1]
  ELSE PathJoin(JoinAll(SubSeq(parts, 1, Len(parts) - 1)), parts[Len(parts)])

\* posixpath.dirname
Dirname(p) ==
  LET head == SubSeq(p, 1, LastSep(p))
  IN IF head # <<>> /\ \E i \in 1..Len(head) : head[i] # Sep
     THEN RStripSep(head) ELSE head

\* posixpath.basename
Basename(p) == SubSeq(p, LastSep(p) + 1, Len(p))

\* the non-empty components of a path
NonEmptyParts(p) == SelectSeq(Split(p, Sep), LAMBDA x : x # <<>>)

\* length of the longest common prefix of two component lists
RECURSIVE CommonLen(_, _)
CommonLen(a, b) ==
  IF a = <<>> \/ b = <<>> \/ Head(a) # Head(b) THEN 0
  ELSE 1 + CommonLen(Tail(a), Tail(b))

\* posixpath.relpath(path, start) for absolute, normalised arguments
Relpath(path, start) ==
  LET start_list == NonEmptyParts(start)
      path_list  == NonEmptyParts(path)
      i          == CommonLen(start_list, path_list)
      rel_list   == [k \in 1..(Len(start_list) - i) |-> << ".", "." >>]
                      \o SubSeq(path_list, i + 1, Len(path_list))
  IN IF rel_list = <<>> THEN << "." >> ELSE JoinAll(rel_list)

(***************************************************************************)
(* Names.                                                                  *)
(***************************************************************************)
DS_Store        == << ".", "D", "S", "_", "S", "t", "o", "r", "e" >>
Localized       == << ".", "l", "o", "c", "a", "l", "i", "z", "e", "d" >>
AppleDouble     == << ".", "A", "p", "p", "l", "e", "D", "o", "u", "b", "l", "e" >>
LSOverride      == << ".", "L", "S", "O", "v", "e", "r", "r", "i", "d", "e" >>
ThumbsDb        == << "T", "h", "u", "m", "b", "s", ".", "d", "b" >>
TimeMachine     ==
  << ".", "c", "o", "m", ".", "a", "p", "p", "l", "e", ".", "t", "i", "m", "e",
     "m", "a", "c", "h", "i", "n", "e", ".", "s", "u", "p", "p", "o", "r", "t",
     "e", "d" >>
DocumentRevs    ==
  << ".", "D", "o", "c", "u", "m", "e", "n", "t", "R", "e", "v", "i", "s", "i",
     "o", "n", "s", "-", "V", "1", "0", "0" >>
Spotlight       ==
  << ".", "S", "p", "o", "t", "l", "i", "g", "h", "t", "-", "V", "1", "0", "0" >>
TemporaryItems  ==
  << ".", "T", "e", "m", "p", "o", "r", "a", "r", "y", "I", "t", "e", "m", "s" >>
Trashes         == << ".", "T", "r", "a", "s", "h", "e", "s" >>
VolumeIcon      ==
  << ".", "V", "o", "l", "u", "m", "e", "I", "c", "o", "n", ".", "i", "c", "n", "s" >>
Fseventsd       == << ".", "f", "s", "e", "v", "e", "n", "t", "s", "d" >>
Apdisk          == << ".", "a", "p", "d", "i", "s", "k" >>

CLEANUP_FILES ==
  { DS_Store, Localized, AppleDouble, LSOverride, ThumbsDb, TimeMachine,
    DocumentRevs, Spotlight, TemporaryItems, Trashes, VolumeIcon, Fseventsd,
    Apdisk }

(***************************************************************************)
(* Classifier.                                                             *)
(***************************************************************************)
should_clean_file(filename, filepath) ==
  IF StartsWith(filename, << "." >>) THEN TRUE
  ELSE IF filename \in CLEANUP_FILES THEN TRUE
  ELSE IF StartsWith(filename, << ".", "_" >>) THEN TRUE
  ELSE IF Contains(filepath, AppleDouble) THEN TRUE
  ELSE FALSE

(***************************************************************************)
(* The scanned tree.  A regular file is [dir, name]: the names of the      *)
(* directories from the root down to it, and its own name.                 *)
(***************************************************************************)
\* ROOT_DIRECTORY, the configured scan root
ROOT_DIRECTORY == << "/", "r" >>

NameA  == << "a" >>
NameB  == << "b" >>
NameF  == << "f" >>
Hidden == << ".", "h" >>

\* the directories a tree of the model may have, each as its segments
DirPool ==
  { << >>, << NameA >>, << NameA, NameB >>, << Hidden >>, << Hidden, NameA >> }

\* the file names a tree of the model may use
FilePool == { NameF, DS_Store }

\* the byte sizes a file may have
Sizes == { 1, 2 }

Positions == [dir : DirPool, name : FilePool]

Front(s) == SubSeq(s, 1, Len(s) - 1)

Prefixes(d) == { SubSeq(d, 1, k) : k \in 0..Len(d) }

\* the path string under which the OS knows a directory / a file of the tree
DirPathOf(d) == JoinAll(<< ROOT_DIRECTORY >> \o d)
FullPathOf(f) == JoinAll(<< ROOT_DIRECTORY >> \o f.dir \o << f.name >>)

VARIABLES
  rootKind,      \* "dir", "missing" or "file": what ROOT_DIRECTORY is on disk
  disk,          \* the regular files now present under the root
  dirs,          \* the directories under the root (the code removes none)
  size,          \* st_size of each file
  statFails,     \* files on which os.stat / os.path.getsize raises
  removeFails,   \* files on which os.remove raises
  pc,            \* position of main
  stack,         \* os.walk: directories still to be listed, next one first
  dirpath,       \* os.walk: the directory being processed
  filenames,     \* the file names of dirpath not yet processed
  stats,         \* FileStats
  file_data,     \* the list clean_directory builds and returns
  dir_data,      \* the list get_directory_structure returns
  files_csv,     \* the files inventory: whether written, and its rows
  dirs_csv,      \* the directory inventory: whether written, and its rows
  exit_code,     \* "running", then the process outcome
  run,           \* 1 in the first invocation, 2 in the second
  prev,          \* what the first invocation returned and counted
  disk0,         \* the files present when the current invocation started
  visited,       \* full paths handed to the loop body, in order
  deleted,       \* files os.remove has removed in the current invocation
  cf_filename,   \* should_clean_file alone: the filename argument
  cf_filepath,   \* should_clean_file alone: the filepath argument
  cf_result      \* should_clean_file alone: the value returned

fsVars   == << rootKind, disk, dirs, size, statFails, removeFails >>
walkVars == << stack, dirpath, filenames >>
outVars  == << files_csv, dirs_csv, exit_code >>
cfVars   == << cf_filename, cf_filepath, cf_result >>
vars ==
  << rootKind, disk, dirs, size, statFails, removeFails, pc, stack, dirpath,
     filenames, stats, file_data, dir_data, files_csv, dirs_csv, exit_code,
     run, prev, disk0, visited, deleted, cf_filename, cf_filepath, cf_result >>

\* FileStats.__init__
FileStats == [total_files |-> 0, cleaned_files |-> 0, cleaned_size |-> 0,
              errors |-> << >>]

\* sorted(names): ascending by code point
RECURSIVE Sorted(_)
Sorted(S) ==
  IF S = {} THEN << >>
  ELSE LET m == CHOOSE x \in S : \A y \in S \ {x} : StrLess(x, y)
       IN << m >> \o Sorted(S \ {m})

\* os.scandir(top), split as os.walk splits it
ScanDirs(top) ==
  { d[Len(d)] : d \in { e \in dirs : e # << >> /\ DirPathOf(Front(e)) = top } }
ScanFiles(top) ==
  { f.name : f \in { g \in disk : DirPathOf(g.dir) = top } }

\* the file a path string resolves to, as a set of at most one file
Resolve(path) == { f \in disk : FullPathOf(f) = path }

\* variant: the hidden directories are kept in the walk
PruneHidden_KeepAll(dirnames) == Sorted(dirnames)

\* dirnames[:] = [d for d in sorted(dirnames) if not d.startswith('.')]
PruneHidden(dirnames) ==
  SelectSeq(Sorted(dirnames), LAMBDA d : ~StartsWith(d, << "." >>))

\* file_data.sort(key=lambda x: x['relative_path']): a stable sort
RECURSIVE InsertByPath(_, _)
InsertByPath(x, s) ==
  IF s = << >> THEN << x >>
  ELSE IF StrLess(x.relative_path, Head(s).relative_path)
       THEN << x >> \o s
       ELSE << Head(s) >> \o InsertByPath(x, Tail(s))

RECURSIVE SortByPath(_)
SortByPath(s) ==
  IF s = << >> THEN << >>
  ELSE InsertByPath(s[Len(s)], SortByPath(Front(s)))

(***************************************************************************)
(* Initial states: a tree of at most MaxFiles files, each with a size and  *)
(* with the system calls that fail on it; or a root that is no directory.  *)
(***************************************************************************)
\* an inventory file that does not exist yet
NotWritten == [written |-> FALSE, rows |-> << >>]

Idle ==
  /\ stack = << >>
  /\ dirpath = << >>
  /\ filenames = << >>
  /\ stats = FileStats
  /\ file_data = << >>
  /\ dir_data = << >>
  /\ files_csv = NotWritten
  /\ dirs_csv = NotWritten
  /\ exit_code = "running"
  /\ run = 1
  /\ prev = [file_data |-> << >>, stats |-> FileStats]
  /\ visited = << >>
  /\ deleted = {}

Init ==
  /\ rootKind \in { "dir", "missing", "file" }
  /\ disk \in { F \in SUBSET Positions : Cardinality(F) <= MaxFiles }
  /\ rootKind # "dir" => disk = {}
  /\ dirs = UNION { Prefixes(f.dir) : f \in disk } \cup { << >> }
  /\ size \in [disk -> Sizes]
  /\ statFails \in SUBSET disk
  /\ removeFails \in SUBSET disk
  /\ disk0 = disk
  /\ pc = "start"
  /\ Idle
  /\ cf_filename = << >>
  /\ cf_filepath = << >>
  /\ cf_result = FALSE

(***************************************************************************)
(* main, up to the call of clean_directory, and the head of the latter.    *)
(***************************************************************************)
Start ==
  /\ pc = "start"
  /\ stats' = FileStats
  /\ file_data' = << >>
  /\ stack' = << ROOT_DIRECTORY >>
  /\ pc' = "walk"
  /\ UNCHANGED << fsVars, dirpath, filenames, dir_data, outVars, run, prev,
                  disk0, visited, deleted, cfVars >>

(***************************************************************************)
(* os.walk(root_path, topdown=True) resumed: the next directory is listed, *)
(* the loop body prunes and sorts.  A top that cannot be listed is skipped *)
(* silently (onerror is None).                                             *)
(***************************************************************************)
Listable(top) == rootKind = "dir" /\ \E d \in dirs : DirPathOf(d) = top

WalkDir ==
  /\ pc = "walk"
  /\ filenames = << >>
  /\ stack # << >>
  /\ LET top == Head(stack)
     IN IF Listable(top)
        THEN LET dirnames == PruneHidden(ScanDirs(top))
             IN /\ dirpath' = top
                /\ filenames' = Sorted(ScanFiles(top))
                /\ stack' = [i \in 1..Len(dirnames) |-> PathJoin(top, dirnames[i])]
                              \o Tail(stack)
        ELSE /\ stack' = Tail(stack)
             /\ UNCHANGED << dirpath, filenames >>
  /\ UNCHANGED << fsVars, pc, stats, file_data, dir_data, outVars, run, prev,
                  disk0, visited, deleted, cfVars >>

(***************************************************************************)
(* One pass of the loop body for a file name.                              *)
(***************************************************************************)
StatOK(full_path) ==
  Resolve(full_path) # {} /\ Resolve(full_path) \cap statFails = {}
RemoveOK(full_path) ==
  Resolve(full_path) # {} /\ Resolve(full_path) \cap removeFails = {}
SizeOf(full_path) == size[CHOOSE f \in Resolve(full_path) : TRUE]

\* variant: the handler swallows the error, as the inner handler does
OnError_Silent(st, full_path, e) == st

\* except Exception as e: stats.errors.append(error_msg)
OnError(st, full_path, e) ==
  [st EXCEPT !.errors = Append(@, [path |-> full_path, cause |-> e])]

\* variant: cleaned_files is incremented before os.remove is called
CleanJunk_CountFirst(st, full_path) ==
  LET sized == IF StatOK(full_path)
               THEN [st EXCEPT !.cleaned_size = @ + SizeOf(full_path)]
               ELSE st
      early == [sized EXCEPT !.cleaned_files = @ + 1]
  IN IF RemoveOK(full_path)
     THEN /\ disk' = disk \ Resolve(full_path)
          /\ deleted' = deleted \cup Resolve(full_path)
          /\ stats' = early
          /\ UNCHANGED file_data
     ELSE /\ stats' = OnError(early, full_path, "remove")
          /\ UNCHANGED << disk, deleted, file_data >>

\* variant: the junk file is counted as cleaned but os.remove is not called
CleanJunk_NoRemove(st, full_path) ==
  LET sized == IF StatOK(full_path)
               THEN [st EXCEPT !.cleaned_size = @ + SizeOf(full_path)]
               ELSE st
  IN /\ stats' = [sized EXCEPT !.cleaned_files = @ + 1]
     /\ UNCHANGED << disk, deleted, file_data >>

\* the branch taken when should_clean_file is true; st has the file counted
CleanJunk(st, full_path) ==
  LET sized == IF StatOK(full_path)
               THEN [st EXCEPT !.cleaned_size = @ + SizeOf(full_path)]
               ELSE st
  IN IF RemoveOK(full_path)
     THEN /\ disk' = disk \ Resolve(full_path)
          /\ deleted' = deleted \cup Resolve(full_path)
          /\ stats' = [sized EXCEPT !.cleaned_files = @ + 1]
          /\ UNCHANGED file_data
     ELSE /\ stats' = OnError(sized, full_path, "remove")
          /\ UNCHANGED << disk, deleted, file_data >>

\* variant: the record is built but never appended
Inventory_NoAppend(st, full_path, filename) ==
  /\ IF StatOK(full_path)
     THEN /\ stats' = st
          /\ UNCHANGED file_data
     ELSE /\ stats' = OnError(st, full_path, "stat")
          /\ UNCHANGED file_data
  /\ UNCHANGED << disk, deleted >>

\* variant: a file that could not be inventoried is removed
Inventory_RemoveOnError(st, full_path, filename) ==
  IF StatOK(full_path)
  THEN LET rel_path == Relpath(full_path, ROOT_DIRECTORY)
           file_info == [filename      |-> filename,
                         relative_path |-> rel_path,
                         raw_size      |-> SizeOf(full_path),
                         directory     |-> Dirname(rel_path)]
       IN /\ file_data' = Append(file_data, file_info)
          /\ stats' = st
          /\ UNCHANGED << disk, deleted >>
  ELSE /\ stats' = OnError(st, full_path, "stat")
       /\ disk' = disk \ Resolve(full_path)
       /\ deleted' = deleted \cup Resolve(full_path)
       /\ UNCHANGED file_data

\* the branch taken otherwise
Inventory(st, full_path, filename) ==
  /\ IF StatOK(full_path)
     THEN LET rel_path == Relpath(full_path, ROOT_DIRECTORY)
              file_info == [filename      |-> filename,
                            relative_path |-> rel_path,
                            raw_size      |-> SizeOf(full_path),
                            directory     |-> Dirname(rel_path)]
          IN /\ file_data' = Append(file_data, file_info)
             /\ stats' = st
     ELSE /\ stats' = OnError(st, full_path, "stat")
          /\ UNCHANGED file_data
  /\ UNCHANGED << disk, deleted >>

ProcessFile ==
  /\ pc = "walk"
  /\ filenames # << >>
  /\ LET filename  == Head(filenames)
         full_path == PathJoin(dirpath, filename)
         counted   == [stats EXCEPT !.total_files = @ + 1]
     IN /\ IF should_clean_file(filename, full_path)
           THEN CleanJunk(counted, full_path)
           ELSE Inventory(counted, full_path, filename)
        /\ visited' = Append(visited, full_path)
  /\ filenames' = Tail(filenames)
  /\ UNCHANGED << rootKind, dirs, size, statFails, removeFails, pc, stack,
                  dirpath, dir_data, outVars, run, prev, disk0, cfVars >>

\* the walk is exhausted: sort and return
Return ==
  /\ pc = "walk"
  /\ filenames = << >>
  /\ stack = << >>
  /\ file_data' = SortByPath(file_data)
  /\ pc' = "derive"
  /\ UNCHANGED << fsVars, walkVars, stats, dir_data, outVars, run, prev,
                  disk0, visited, deleted, cfVars >>

(***************************************************************************)
(* Hierarchy deriver.                                                      *)
(***************************************************************************)
\* current_path after the k-th part of the loop over rel_path.split(os.sep)
RECURSIVE CurrentPath(_, _)
CurrentPath(parts, k) ==
  IF k = 0 THEN << >>
  ELSE LET before == CurrentPath(parts, k - 1)
       IN IF before # << >> THEN PathJoin(before, parts[k]) ELSE parts[k]

\* what the inner loop adds to directories for one file
LevelsOf(rel_path) ==
  LET parts == Split(rel_path, Sep)
  IN { Dirname(CurrentPath(parts, k)) : k \in 1..Len(parts) }

\* variant: the empty path is left in the set
Discard_Nothing(directories) == directories

\* directories.discard('')
Discard(directories) == directories \ { << >> }

get_directory_structure(fd) ==
  LET directories == Discard(UNION { LevelsOf(fd[i].relative_path) : i \in 1..Len(fd) })
      dir_list == Sorted(directories)
  IN [i \in 1..Len(dir_list) |->
        LET dir_path == dir_list[i]
        IN [directory_path   |-> dir_path,
            depth            |-> IF dir_path # << >>
                                 THEN Len(Split(dir_path, Sep)) ELSE 0,
            parent_directory |-> IF dir_path # << >> THEN Dirname(dir_path) ELSE << >>,
            directory_name   |-> IF dir_path # << >> THEN Basename(dir_path) ELSE << >>]]

Derive ==
  /\ pc = "derive"
  /\ dir_data' = get_directory_structure(file_data)
  /\ pc' = "report"
  /\ UNCHANGED << fsVars, walkVars, stats, file_data, outVars, run, prev,
                  disk0, visited, deleted, cfVars >>

\* main: both inventories are saved, the summary is printed, main returns
Report ==
  /\ pc = "report"
  /\ files_csv' = [written |-> TRUE, rows |-> file_data]
  /\ dirs_csv' = [written |-> TRUE, rows |-> dir_data]
  /\ exit_code' = "success"
  /\ pc' = "done"
  /\ UNCHANGED << fsVars, walkVars, stats, file_data, dir_data, run, prev,
                  disk0, visited, deleted, cfVars >>

\* the program is started once more on the tree it left behind
Rerun ==
  /\ pc = "done"
  /\ run = 1
  /\ run' = 2
  /\ prev' = [file_data |-> file_data, stats |-> stats]
  /\ disk0' = disk
  /\ pc' = "start"
  /\ stack' = << >>
  /\ dirpath' = << >>
  /\ filenames' = << >>
  /\ stats' = FileStats
  /\ file_data' = << >>
  /\ dir_data' = << >>
  /\ files_csv' = NotWritten
  /\ dirs_csv' = NotWritten
  /\ exit_code' = "running"
  /\ visited' = << >>
  /\ deleted' = {}
  /\ UNCHANGED << fsVars, cfVars >>

Next ==
  \/ Start
  \/ WalkDir
  \/ ProcessFile
  \/ Return
  \/ Derive
  \/ Report
  \/ Rerun

Spec == Init /\ [][Next]_vars

(***************************************************************************)
(* The classifier on its own: the arguments are drawn from pools, with     *)
(* filepath = os.path.join(dirpath, filename) as in clean_directory.       *)
(***************************************************************************)
ShadowF      == << ".", "_", "f" >>
FAppleDouble == << "f" >> \o AppleDouble
AppleDoubleX == AppleDouble \o << "x" >>

CfNames == { NameF, DS_Store, ThumbsDb, ShadowF, FAppleDouble, AppleDouble }
CfDirs  ==
  { << >>, << NameA >>, << AppleDouble >>, << NameA, AppleDouble >>,
    << AppleDouble, NameA >>, << FAppleDouble >>, << AppleDoubleX >> }
CfRoots == { ROOT_DIRECTORY, << Sep >> \o AppleDouble }

InitClassify ==
  /\ rootKind = "dir"
  /\ disk = {}
  /\ dirs = { << >> }
  /\ size = << >>
  /\ statFails = {}
  /\ removeFails = {}
  /\ disk0 = {}
  /\ pc = "classify"
  /\ Idle
  /\ cf_filename \in CfNames
  /\ \E r \in CfRoots, d \in CfDirs :
       cf_filepath = JoinAll(<< r >> \o d \o << cf_filename >>)
  /\ cf_result = FALSE

Classify ==
  /\ pc = "classify"
  /\ cf_result' = should_clean_file(cf_filename, cf_filepath)
  /\ pc' = "classified"
  /\ UNCHANGED << fsVars, walkVars, stats, file_data, dir_data, outVars, run,
                  prev, disk0, visited, deleted, cf_filename, cf_filepath >>

NextClassify == Classify

SpecClassify == InitClassify /\ [][NextClassify]_vars

(***************************************************************************)
(* Vocabulary of the properties.                                           *)
(***************************************************************************)
\* clean_directory has returned
Returned == pc \in { "derive", "report", "done" }

Range(s) == { s[i] : i \in DOMAIN s }

\* '/'.join(segs)
RECURSIVE JoinWithSep(_)
JoinWithSep(segs) ==
  IF segs = << >> THEN << >>
  ELSE IF Len(segs) = 1 THEN segs[1]
  ELSE segs[1] \o << Sep >> \o JoinWithSep(Tail(segs))

\* the path of a file of the tree relative to the root
RelOf(f) == JoinWithSep(f.dir \o << f.name >>)

\* the number of FileRecords / of error messages that name a file
Recorded(f) ==
  Cardinality({ i \in DOMAIN file_data : file_data[i].relative_path = RelOf(f) })
ErrorsFor(f) ==
  Cardinality({ i \in DOMAIN stats.errors : stats.errors[i].path = FullPathOf(f) })

\* the loop body has been run for the file
Visited(f) == FullPathOf(f) \in Range(visited)

\* the file lies in a hidden subdirectory, at some depth
InHidden(f) == \E k \in DOMAIN f.dir : StartsWith(f.dir[k], << "." >>)

\* the classifier's verdict on a file of the tree
Junk(f) == should_clean_file(f.name, FullPathOf(f))

\* the system call the loop body needs for the file raises
Fails(f) == IF Junk(f) THEN f \in removeFails ELSE f \in statFails
FailedPath(p) == \E f \in disk0 : FullPathOf(f) = p /\ Fails(f)

\* the order in which a top-down walk with sorted names and without hidden
\* subdirectories meets the files present at the start
RECURSIVE ExpectedWalk(_), ConcatWalk(_)
ExpectedWalk(d) ==
  LET names == Sorted({ f.name : f \in { g \in disk0 : g.dir = d } })
      subs  == Sorted({ e[Len(e)] : e \in { x \in dirs : x # << >> /\ Front(x) = d
                                               /\ ~StartsWith(x[Len(x)], << "." >>) } })
  IN [i \in 1..Len(names) |-> FullPathOf([dir |-> d, name |-> names[i]])]
       \o ConcatWalk([i \in 1..Len(subs) |-> Append(d, subs[i])])
ConcatWalk(ds) ==
  IF ds = << >> THEN << >> ELSE ExpectedWalk(Head(ds)) \o ConcatWalk(Tail(ds))

Expected == IF rootKind = "dir" THEN ExpectedWalk(<< >>) ELSE << >>

IsPrefix(a, b) == Len(a) <= Len(b) /\ SubSeq(b, 1, Len(a)) = a

RECURSIVE SumBytes(_)
SumBytes(S) ==
  IF S = {} THEN 0
  ELSE LET f == CHOOSE x \in S : TRUE
       IN (IF f \in statFails THEN 0 ELSE size[f]) + SumBytes(S \ {f})

(***************************************************************************)
(* C1.                                                                     *)
(***************************************************************************)
\* C1 as stated: once clean_directory has returned, every file that was
\* under the root at the start is either deleted and absent, or named by
\* exactly one FileRecord.
C1_EveryFileDeletedOrRecorded ==
  Returned =>
    \A f \in disk0 : (f \in deleted /\ f \notin disk) \/ Recorded(f) = 1

\* C1 amended: once clean_directory has returned, every file that was under
\* the root at the start, that the walk visited and whose processing raised
\* no error is either deleted and absent, or named by exactly one FileRecord.
C1_VisitedFileDeletedOrRecorded ==
  Returned =>
    \A f \in disk0 :
      (Visited(f) /\ ErrorsFor(f) = 0) =>
        (f \in deleted /\ f \notin disk) \/ Recorded(f) = 1

C1_Witness ==
  /\ Returned
  /\ \E f, g \in disk0 :
       /\ Visited(f) /\ ErrorsFor(f) = 0 /\ f \in deleted
       /\ Visited(g) /\ ErrorsFor(g) = 0 /\ Recorded(g) = 1

(***************************************************************************)
(* C2.                                                                     *)
(***************************************************************************)
\* C2: when the root is missing or is no directory, nothing is visited or
\* deleted, no inventory file is written, and the run ends in failure.
C2_InvalidRootAborts ==
  rootKind # "dir" =>
    /\ visited = << >>
    /\ deleted = {}
    /\ ~files_csv.written
    /\ ~dirs_csv.written
    /\ pc = "done" => exit_code # "success"

(***************************************************************************)
(* C3.                                                                     *)
(***************************************************************************)
\* C3: should_clean_file returns true exactly when the filename starts with
\* '.', is in the denylist, starts with '._', or a whole component of the
\* path equals '.AppleDouble'.
C3_JunkIffRule ==
  pc = "classified" =>
    (cf_result <=>
       \/ StartsWith(cf_filename, << "." >>)
       \/ cf_filename \in CLEANUP_FILES
       \/ StartsWith(cf_filename, << ".", "_" >>)
       \/ \E i \in DOMAIN Split(cf_filepath, Sep) :
            Split(cf_filepath, Sep)[i] = AppleDouble)

(***************************************************************************)
(* C4.                                                                     *)
(***************************************************************************)
\* C4: after every pass of the loop body, total_files = cleaned_files +
\* number of FileRecords + number of files that raised an error, the last
\* being the length of stats.errors; every visited file has exactly one of
\* the three outcomes.
C4_Accounting ==
  /\ stats.total_files
       = stats.cleaned_files + Len(file_data) + Len(stats.errors)
  /\ Len(stats.errors) = Cardinality({ f \in disk0 : Visited(f) /\ Fails(f) })
  /\ stats.total_files = Len(visited)
  /\ stats.cleaned_files = Cardinality(deleted)
  /\ \A f \in disk0 :
       Visited(f) =>
         (IF f \in deleted THEN 1 ELSE 0) + Recorded(f) + ErrorsFor(f) = 1

C4_Witness ==
  /\ Returned
  /\ stats.total_files = 2
  /\ stats.cleaned_files = 1
  /\ Len(stats.errors) = 1

(***************************************************************************)
(* C5.                                                                     *)
(***************************************************************************)
\* C5: cleaned_size is always the sum of the sizes of the files deleted so
\* far, a deleted file whose size could not be read counting 0 and a junk
\* file whose deletion failed counting nothing.
C5_CleanedSizeIsDeletedBytes ==
  stats.cleaned_size = SumBytes(deleted)

(***************************************************************************)
(* C6.                                                                     *)
(***************************************************************************)
\* C6: a failure on one file does not end the walk: the files are visited
\* in walk order whatever fails, at return all of them have been visited,
\* the error messages are those of the failing files, one each, in walk
\* order, and a failing file has no FileRecord.
C6_FailureDoesNotStopWalk ==
  /\ IsPrefix(visited, Expected)
  /\ Returned => visited = Expected
  /\ [i \in 1..Len(stats.errors) |-> stats.errors[i].path]
       = SelectSeq(visited, FailedPath)
  /\ \A f \in disk0 : (Visited(f) /\ Fails(f)) => Recorded(f) = 0

C6_Witness ==
  /\ pc = "done"
  /\ Len(visited) = 2
  /\ FailedPath(visited[1])
  /\ ~FailedPath(visited[2])

(***************************************************************************)
(* C7.                                                                     *)
(***************************************************************************)
\* C7: a second run on the tree the first run left behind cleans nothing
\* and returns the survivor sequence the first run returned.
C7_Idempotent ==
  (run = 2 /\ Returned) =>
    /\ stats.cleaned_files = 0
    /\ file_data = prev.file_data

C7_Witness ==
  /\ run = 2
  /\ pc = "done"
  /\ prev.stats.cleaned_files > 0
  /\ Len(file_data) > 0

(***************************************************************************)
(* C8.                                                                     *)
(***************************************************************************)
\* the non-empty proper path prefixes of a relative path
AncestorsOf(rel_path) ==
  LET segs == Split(rel_path, Sep)
  IN { JoinWithSep(SubSeq(segs, 1, k)) : k \in 1..(Len(segs) - 1) }

DirPathsOut == { dir_data[i].directory_path : i \in DOMAIN dir_data }

\* C8: the directory paths get_directory_structure returns are exactly the
\* non-empty proper path prefixes of the survivors' relative paths, each
\* once; the root is absent, and so is every directory without a surviving
\* descendant.
C8_ExactlyTheAncestors ==
  pc \in { "report", "done" } =>
    /\ DirPathsOut
         = UNION { AncestorsOf(file_data[i].relative_path) : i \in DOMAIN file_data }
    /\ Len(dir_data) = Cardinality(DirPathsOut)
    /\ << >> \notin DirPathsOut
    /\ \A d \in dirs :
         (\A f \in disk0 : Recorded(f) = 0 \/ ~IsPrefix(d, f.dir))
           => JoinWithSep(d) \notin DirPathsOut

C8_Witness ==
  /\ pc = "done"
  /\ Len(dir_data) = 2
  /\ \E f \in deleted : f.dir # << >>

(***************************************************************************)
(* C9.                                                                     *)
(***************************************************************************)
\* C9: a file inside a hidden subdirectory, at any depth, is never counted,
\* deleted, recorded or reported, and stays on disk.
C9_HiddenNeverEntered ==
  /\ \A f \in disk0 :
       InHidden(f) =>
         /\ f \in disk
         /\ f \notin deleted
         /\ ~Visited(f)
         /\ Recorded(f) = 0
         /\ ErrorsFor(f) = 0
  /\ stats.total_files <= Cardinality({ f \in disk0 : ~InHidden(f) })

C9_Witness ==
  /\ Returned
  /\ \E f, g \in disk0 :
       /\ InHidden(f) /\ Len(f.dir) = 2
       /\ Visited(g)

(***************************************************************************)
(* C10.                                                                    *)
(***************************************************************************)
\* C10: every file removed from disk was visited and classified as junk;
\* a visited file that is not junk stays on disk, whether or not its
\* metadata could be read; a file with a FileRecord was not deleted.
C10_OnlyVisitedJunkRemoved ==
  /\ disk \subseteq disk0
  /\ \A f \in disk0 \ disk : Visited(f) /\ Junk(f)
  /\ \A f \in disk0 : (Visited(f) /\ ~Junk(f)) => f \in disk
  /\ \A f \in disk0 : Recorded(f) > 0 => f \in disk

C10_Witness ==
  /\ Returned
  /\ \E f, g \in disk0 :
       /\ Visited(f) /\ ~Junk(f) /\ f \in statFails
       /\ g \notin disk

====
